---- MODULE Spec2Model ----
(***************************************************************************)
(* Model of the Telegram/Ollama relay bot of src/main.py: the handlers     *)
(* handle_text, handle_photo and handle_rating, the in-memory "pending"    *)
(* tracker (bot_data["pending"]) and the CSV ledger (ratings.csv).         *)
(*                                                                         *)
(* A handler invocation is a coroutine.  It is suspended at each `await`   *)
(* (pc[h] names the await it is suspended at) and every action of the      *)
(* model is "the awaited call returns, the coroutine runs up to its next   *)
(* await".  The code between two awaits runs without interruption on the   *)
(* single event-loop thread.  ollama_generate is a synchronous call        *)
(* (requests.post): while it runs, the event-loop thread is occupied       *)
(* (busy = h) and no coroutine can be resumed.  Handler invocations are    *)
(* allowed to interleave at their awaits; the default Application of       *)
(* main() processes updates one after the other, which is one of the       *)
(* interleavings of this model.                                            *)
(*                                                                         *)
(* Strings that the code formats or parses (tokens, callback payloads,     *)
(* rating fields, model responses) are sequences of one-character strings. *)
(* The prompt text built by build_prompt and the image bytes are not part  *)
(* of the state: nothing the bot stores depends on them.                   *)
(***************************************************************************)
EXTENDS Integers, Sequences, FiniteSets, TLC

\* ------------------------------------------------------------------ bounds
\* Number of handler invocations (inbound updates) in one run.
MaxUpdates == 3

\* Number of handler invocations that have started and not ended.
MaxInFlight == 2

\* Number of text messages and photos among the inbound updates.
MaxMessages == 2

\* Largest absolute value of the identifiers make_token is tried on.
MaxTokId == 12

\* ----------------------------------------------------------------- strings
Digits == <<"0", "1", "2", "3", "4", "5", "6", "7", "8", "9">>

RECURSIVE NatToStr(_)
\* str() of a non-negative int: its decimal digits, most significant first.
NatToStr(n) ==
    IF n < 10 THEN <<Digits[n + 1]>>
    ELSE NatToStr(n \div 10) \o <<Digits[(n % 10) + 1]>>

\* str() of an int, as the f-string of make_token formats it.
IntToStr(n) == IF n < 0 THEN <<"-">> \o NatToStr(-n) ELSE NatToStr(n)

\* The value of one decimal digit character, -1 for any other character.
DigitVal(c) ==
    IF \E i \in 1..10 : Digits[i] = c
    THEN (CHOOSE i \in 1..10 : Digits[i] = c) - 1
    ELSE -1

RECURSIVE StrToInt(_)
\* int() of a non-empty string of decimal digits.
StrToInt(s) ==
    IF Len(s) = 1 THEN DigitVal(s[1])
    ELSE 10 * StrToInt(SubSeq(s, 1, Len(s) - 1)) + DigitVal(s[Len(s)])

RECURSIVE Split(_, _)
\* str.split(sep) for a one-character separator: one field more than there
\* are separators, empty fields kept.
Split(s, sep) ==
    IF \E i \in 1..Len(s) : s[i] = sep
    THEN LET i == CHOOSE k \in 1..Len(s) :
                      s[k] = sep /\ \A j \in 1..(k - 1) : s[j] # sep
         IN  <<SubSeq(s, 1, i - 1)>> \o Split(SubSeq(s, i + 1, Len(s)), sep)
    ELSE <<s>>

RECURSIVE Strip(_)
\* str.strip(): leading and trailing blanks removed.
Strip(s) ==
    IF s = <<>> THEN s
    ELSE IF s[1] = " " THEN Strip(Tail(s))
    ELSE IF s[Len(s)] = " " THEN Strip(SubSeq(s, 1, Len(s) - 1))
    ELSE s

\* ------------------------------------------------------- program constants
\* Python's None where the value is a string (message text, caption).
None == "<None>"
\* Python's None where the value is a Telegram user id (ids are positive).
NoUser == 0
\* Position of a handler invocation that does not exist (yet).
NoHandler == 0

TEXT_MODEL == "qwen2.5:7b"
VISION_MODEL == "llava:7b"

CSV_HEADERS ==
    {"timestamp_utc", "user_id", "chat_id", "message_id", "input_type",
     "user_text", "text_model", "vision_model", "ai_answer", "rating"}

\* The replacement answers of handle_text and handle_photo for an empty
\* model response (one-element strings: their wording is never parsed).
EmptyTextAnswer == <<"[empty answer from the model]">>
EmptyVisionAnswer == <<"[empty answer from the vision model]">>

\* x or "": None and "" both give "".
OrEmpty(x) == IF x = None \/ x = "" THEN "" ELSE x

\* --------------------------------------------------------------- Rating UI
\* Variant: the two numbers with no separator between them.
make_token_no_sep(chat_id, message_id) ==
    IntToStr(chat_id) \o IntToStr(message_id)

\* f"{chat_id}:{message_id}"
make_token(chat_id, message_id) ==
    IntToStr(chat_id) \o <<":">> \o IntToStr(message_id)

Rate == <<"r", "a", "t", "e">>

\* The callback_data of the five buttons, f"rate|{token}|{n}" for n = 1..5.
rating_keyboard(token) ==
    [n \in 1..5 |-> Rate \o <<"|">> \o token \o <<"|">> \o IntToStr(n)]

\* ------------------------------------------------------------ the tracker
\* The dict stored under the token by send_answer_with_rating.
PendingRecord(user_id, chat_id, message_id, input_type, user_text, ai_answer, now) ==
    [timestamp_utc |-> now,
     user_id       |-> user_id,
     chat_id       |-> chat_id,
     message_id    |-> message_id,
     input_type    |-> input_type,
     user_text     |-> user_text,
     text_model    |-> TEXT_MODEL,
     vision_model  |-> VISION_MODEL,
     ai_answer     |-> ai_answer]

\* bot_data.setdefault("pending", {})[token] = record: last write wins.
TrackerInsert(p, token, record) ==
    [t \in DOMAIN p \cup {token} |-> IF t = token THEN record ELSE p[t]]

\* Variant: the del left out.
TrackerDeleteNoop(p, token) == p

\* del pending[token]
TrackerDelete(p, token) == [t \in DOMAIN p \ {token} |-> p[t]]

\* pending.get(token): the record, or None (here: the empty record).
NoRecord == [absent |-> TRUE]
TrackerGet(p, token) == IF token \in DOMAIN p THEN p[token] ELSE NoRecord

\* ------------------------------------------------------------- the ledger
\* Variant: the rating counted from zero.
RatingRowFromZero(record, rating_str) ==
    [k \in DOMAIN record \cup {"rating"} |->
        IF k = "rating" THEN StrToInt(rating_str) - 1 ELSE record[k]]

\* {**record, "rating": int(rating_str)}: a new dict, the record untouched.
RatingRow(record, rating_str) ==
    [k \in DOMAIN record \cup {"rating"} |->
        IF k = "rating" THEN StrToInt(rating_str) ELSE record[k]]

\* csv.DictWriter.writerow raises ValueError for a key that is no fieldname;
\* opening or writing the file raises OSError when the I/O fails (io_ok).
AppendSucceeds(row, io_ok) == io_ok /\ DOMAIN row \subseteq CSV_HEADERS

\* append_csv_row: one row added at the end of the file.
append_csv_row(l, row) == Append(l, row)

\* ------------------------------------------------------- inference client
\* What the Ollama server does with one POST /api/generate:
\*   transport  requests.post raised a RequestException (refused, timeout)
\*   status     the HTTP status of the response
\*   json       the body parses as a JSON object
\*   response   its "response" field, <<>> when missing or null
ServerReplies ==
    {[transport |-> FALSE, status |-> 200, json |-> TRUE, response |-> <<" ", "4">>],
     [transport |-> FALSE, status |-> 200, json |-> TRUE, response |-> <<" ">>],
     [transport |-> FALSE, status |-> 200, json |-> FALSE, response |-> <<>>],
     [transport |-> FALSE, status |-> 500, json |-> TRUE, response |-> <<>>],
     [transport |-> TRUE, status |-> 0, json |-> FALSE, response |-> <<>>]}

\* Variant: the status of the response not looked at.
ollama_generate_no_status(reply) ==
    IF reply.transport THEN [raised |-> "OllamaError", text |-> <<>>]
    ELSE IF ~reply.json THEN [raised |-> "Exception", text |-> <<>>]
    ELSE [raised |-> "none", text |-> Strip(reply.response)]

\* ollama_generate: OllamaError for a transport failure and for a status
\* other than 200; r.json() raises another exception for a body that is no
\* JSON; otherwise the stripped "response".
ollama_generate(reply) ==
    IF reply.transport THEN [raised |-> "OllamaError", text |-> <<>>]
    ELSE IF reply.status # 200 THEN [raised |-> "OllamaError", text |-> <<>>]
    ELSE IF ~reply.json THEN [raised |-> "Exception", text |-> <<>>]
    ELSE [raised |-> "none", text |-> Strip(reply.response)]

\* ------------------------------------------------- parsing a rating callback
ValidRatings == {<<"1">>, <<"2">>, <<"3">>, <<"4">>, <<"5">>}

\* Variant: "0" taken for a rating too.
ParseRatingFromZero(data) ==
    LET parts == Split(data, "|")
    IN  IF Len(parts) # 3 \/ parts[1] # Rate
        THEN [verdict |-> "malformed", token |-> <<>>, rating_str |-> <<>>]
        ELSE IF parts[3] \notin (ValidRatings \cup {<<"0">>})
        THEN [verdict |-> "invalid_rating", token |-> parts[2], rating_str |-> parts[3]]
        ELSE [verdict |-> "valid", token |-> parts[2], rating_str |-> parts[3]]

\* Lines 293-301 of handle_rating: the payload split on "|", the checks of
\* the field count, of the prefix and of the rating field.
ParseRating(data) ==
    LET parts == Split(data, "|")
    IN  IF Len(parts) # 3 \/ parts[1] # Rate
        THEN [verdict |-> "malformed", token |-> <<>>, rating_str |-> <<>>]
        ELSE IF parts[3] \notin ValidRatings
        THEN [verdict |-> "invalid_rating", token |-> parts[2], rating_str |-> parts[3]]
        ELSE [verdict |-> "valid", token |-> parts[2], rating_str |-> parts[3]]

\* Variant: the token deleted before the row is appended.
RateFoundDeleteFirst(p, l, token, rating_str, io_ok) ==
    LET row == RatingRow(p[token], rating_str)
    IN  IF AppendSucceeds(row, io_ok)
        THEN [pending |-> TrackerDelete(p, token),
              ledger  |-> append_csv_row(l, row),
              verdict |-> "success"]
        ELSE [pending |-> TrackerDelete(p, token), ledger |-> l,
              verdict |-> "append_failed"]

\* Variant: the rating written into the stored record itself.
RateFoundInPlace(p, l, token, rating_str, io_ok) ==
    LET row == RatingRow(p[token], rating_str)
    IN  IF AppendSucceeds(row, io_ok)
        THEN [pending |-> TrackerDelete(p, token),
              ledger  |-> append_csv_row(l, row),
              verdict |-> "success"]
        ELSE [pending |-> TrackerInsert(p, token, row), ledger |-> l,
              verdict |-> "append_failed"]

\* Lines 311-314 of handle_rating, for a token that is pending: the row is
\* built and appended, and only then is the token deleted; an exception of
\* the append leaves the tracker as it was.
RateFound(p, l, token, rating_str, io_ok) ==
    LET row == RatingRow(p[token], rating_str)
    IN  IF AppendSucceeds(row, io_ok)
        THEN [pending |-> TrackerDelete(p, token),
              ledger  |-> append_csv_row(l, row),
              verdict |-> "success"]
        ELSE [pending |-> p, ledger |-> l, verdict |-> "append_failed"]

\* Lines 303-314 of handle_rating: the lookup and what follows it.
LookupAndRate(p, l, token, rating_str, io_ok) ==
    IF TrackerGet(p, token) = NoRecord
    THEN [pending |-> p, ledger |-> l, verdict |-> "not_found"]
    ELSE RateFound(p, l, token, rating_str, io_ok)

\* Variant: the record stored whether or not the answer was sent.
StoreBeforeSend(p, sent_ok, token, record) == TrackerInsert(p, token, record)

\* Lines 179-192 of send_answer_with_rating: the record is stored once the
\* answer has been sent; an exception of the send leaves the tracker alone.
StoreOnAnswer(p, sent_ok, token, record) ==
    IF sent_ok THEN TrackerInsert(p, token, record) ELSE p

\* ------------------------------------------------------------------ state
VARIABLES
    pending,    \* bot_data["pending"]: token -> record awaiting its rating
    ledger,     \* the data rows of ratings.csv, in file order
    pc,         \* per handler invocation: the await it is suspended at
    upd,        \* per handler invocation: the inbound update it handles
    loc,        \* per handler invocation: its local variables
    outcome,    \* per handler invocation: how it ended
    busy,       \* the invocation inside the synchronous ollama_generate
    nextMsgId,  \* per chat: the message id Telegram gives the next answer
    keyboards,  \* tokens whose rating keyboard Telegram has shown
    inserted,   \* history: every token ever stored in the tracker
    now,        \* the clock read by datetime.now
    probe       \* the identifiers and tokens of the make_token trials

vars == <<pending, ledger, pc, upd, loc, outcome, busy, nextMsgId, keyboards,
          inserted, now, probe>>

Handlers == 1..MaxUpdates
Chats == {-1, 1}

\* Inbound messages: text messages and photos (with or without caption).
TextInputs == {[chat |-> 1, user |-> 7, text |-> "2+2=?"]}
PhotoInputs == {[chat |-> -1, user |-> NoUser, text |-> None]}

\* A token no answer of the run has: a stale click after a restart.
StaleToken == make_token(1, 99)

\* Callback payloads that no button of a shown keyboard carries.
ForgedPayloads(token) ==
    {Rate \o <<"|">> \o token \o <<"|">> \o r :
        r \in {<<"0">>, <<"6">>, <<"a", "b", "c">>, <<>>, <<"5", "|", "5">>}}
    \cup {Rate \o <<"|">> \o token,
          <<"r", "a", "t", "|">> \o token \o <<"|", "5">>,
          <<>>}

NoUpdate == [kind |-> "none", chat |-> 0, user |-> NoUser, text |-> None,
             data |-> <<>>, origin |-> "none"]
NoReply == [transport |-> FALSE, status |-> 0, json |-> FALSE, response |-> <<>>]
NoLocals == [answer |-> <<>>, token |-> <<>>, rating_str |-> <<>>,
             verdict |-> "none", requests |-> 0, reply |-> NoReply]

NoProbe == [a |-> <<0, 0>>, b |-> <<0, 0>>, ta |-> <<>>, tb |-> <<>>, step |-> "off"]

Init ==
    /\ pending = [t \in {} |-> NoRecord]
    /\ ledger = <<>>
    /\ pc = [h \in Handlers |-> "idle"]
    /\ upd = [h \in Handlers |-> NoUpdate]
    /\ loc = [h \in Handlers |-> NoLocals]
    /\ outcome = [h \in Handlers |-> "none"]
    /\ busy = NoHandler
    /\ nextMsgId = [c \in Chats |-> 1]
    /\ keyboards = {}
    /\ inserted = {}
    /\ now = 0
    /\ probe = NoProbe

\* The event-loop thread is free and h is the next invocation to start.
CanStart(h) ==
    /\ busy = NoHandler
    /\ pc[h] = "idle"
    /\ \A g \in Handlers : g < h => pc[g] # "idle"
    /\ Cardinality({g \in Handlers : pc[g] \notin {"idle", "done", "raised"}}) < MaxInFlight

\* The event-loop thread is free to resume h, suspended at await `at`.
CanResume(h, at) == busy = NoHandler /\ pc[h] = at

\* The inbound update once the handler reads it no more: the text, the user
\* and the payload are locals no later line uses (the chat, to which every
\* later message goes, and the origin stay).
Consumed(u) == [u EXCEPT !.user = NoUser, !.text = None, !.data = <<>>]

\* Where the handler reads nothing of the update any more.
PastInput ==
    {"await_keyboard", "await_err_backend", "await_err_generic", "await_edit",
     "await_err_edit", "done", "raised"}

\* Where the handler has ended: none of its locals is left.
Ended == {"done", "raised"}

\* Handler h goes on to await `at` (or ends: "done", "raised") with the
\* locals l; `how` tells how it ended.
Move(h, at, how, l) ==
    /\ pc' = [pc EXCEPT ![h] = at]
    /\ outcome' = [outcome EXCEPT ![h] = how]
    /\ upd' = [upd EXCEPT ![h] =
                  IF at \in Ended THEN [NoUpdate EXCEPT !.kind = upd[h].kind]
                  ELSE IF at \in PastInput THEN Consumed(@) ELSE @]
    /\ loc' = [loc EXCEPT ![h] =
                  IF at \in Ended THEN NoLocals
                  ELSE IF at \in PastInput
                  THEN [l EXCEPT !.answer = <<>>, !.rating_str = <<>>]
                  ELSE l]

Goto(h, at) == Move(h, at, "none", loc[h])
Finish(h, how) == Move(h, "done", how, loc[h])
Raise(h, how) == Move(h, "raised", how, loc[h])

\* A handler starts on an inbound update and runs to its first await.
Start(h, update, at) ==
    /\ CanStart(h)
    /\ update.kind # "rating" =>
          Cardinality({g \in Handlers : upd[g].kind \in {"text", "photo"}}) < MaxMessages
    /\ pc' = [pc EXCEPT ![h] = at]
    /\ upd' = [upd EXCEPT ![h] = update]
    /\ UNCHANGED <<loc, outcome>>

\* ------------------------------------------ handle_text and handle_photo
Stores == <<pending, ledger, inserted, now>>

\* A text message arrives: handle_text reads the text and awaits send_action.
ReceiveText(h) ==
    /\ \E u \in TextInputs :
          Start(h, [kind |-> "text", chat |-> u.chat, user |-> u.user,
                    text |-> u.text, data |-> <<>>, origin |-> "user"], "await_typing")
    /\ UNCHANGED <<busy, nextMsgId, keyboards, probe, Stores>>

\* A photo arrives: handle_photo reads the caption and awaits send_action.
ReceivePhoto(h) ==
    /\ \E u \in PhotoInputs :
          Start(h, [kind |-> "photo", chat |-> u.chat, user |-> u.user,
                    text |-> u.text, data |-> <<>>, origin |-> "user"], "await_typing")
    /\ UNCHANGED <<busy, nextMsgId, keyboards, probe, Stores>>

\* The handler enters ollama_generate: the request is issued and the thread
\* stays inside requests.post until the server's reply (or the timeout);
\* reply is what the server makes of this request.
EnterOllama(h) ==
    /\ \E reply \in ServerReplies :
          Move(h, "in_ollama", "none",
               [loc[h] EXCEPT !.requests = @ + 1, !.reply = reply])
    /\ busy' = h

\* send_action returns.  It is awaited before the try block: its exception
\* leaves the handler.  handle_text goes on to ollama_generate, handle_photo
\* to get_file.
TypingReturns(h) ==
    /\ CanResume(h, "await_typing")
    /\ \E ok \in BOOLEAN :
          IF ~ok THEN Raise(h, "raised_typing") /\ UNCHANGED busy
          ELSE IF upd[h].kind = "text" THEN EnterOllama(h)
          ELSE Goto(h, "await_get_file") /\ UNCHANGED busy
    /\ UNCHANGED <<nextMsgId, keyboards, probe, Stores>>

\* context.bot.get_file returns (handle_photo, inside the try block).
GetFileReturns(h) ==
    /\ CanResume(h, "await_get_file")
    /\ \E ok \in BOOLEAN :
          Goto(h, IF ok THEN "await_download" ELSE "await_err_generic")
    /\ UNCHANGED <<busy, nextMsgId, keyboards, probe, Stores>>

\* file.download_as_bytearray returns; on success the image is encoded and
\* handle_photo goes on to ollama_generate.
DownloadReturns(h) ==
    /\ CanResume(h, "await_download")
    /\ \E ok \in BOOLEAN :
          IF ok THEN EnterOllama(h)
          ELSE Goto(h, "await_err_generic") /\ UNCHANGED busy
    /\ UNCHANGED <<nextMsgId, keyboards, probe, Stores>>

\* ollama_generate returns or raises; the handler then awaits the send of
\* the answer (an empty answer replaced), of the backend-error message
\* (except OllamaError) or of the generic error message (except Exception).
OllamaReturns(h) ==
    /\ busy = h /\ pc[h] = "in_ollama"
    /\ LET res == ollama_generate(loc[h].reply)
           done == [loc[h] EXCEPT !.reply = NoReply]
           empty == IF upd[h].kind = "text" THEN EmptyTextAnswer
                    ELSE EmptyVisionAnswer
           answer == IF res.text = <<>> THEN empty ELSE res.text
       IN  CASE res.raised = "none" ->
                  Move(h, "await_answer", "none", [done EXCEPT !.answer = answer])
             [] res.raised = "OllamaError" ->
                  Move(h, "await_err_backend", "none", done)
             [] OTHER -> Move(h, "await_err_generic", "none", done)
    /\ busy' = NoHandler
    /\ UNCHANGED <<nextMsgId, keyboards, probe, Stores>>

\* send_answer_with_rating, first reply_text returns: Telegram gave the
\* answer its message id, the token is made, the record is stored and the
\* send of the keyboard is awaited.  An exception goes to except Exception.
AnswerSendReturns(h) ==
    /\ CanResume(h, "await_answer")
    /\ \E ok \in BOOLEAN :
          LET chat_id == upd[h].chat
              message_id == nextMsgId[chat_id]
              token == make_token(chat_id, message_id)
              record == PendingRecord(upd[h].user, chat_id, message_id, upd[h].kind,
                                      OrEmpty(upd[h].text), loc[h].answer, now)
          IN  /\ pending' = StoreOnAnswer(pending, ok, token, record)
              /\ inserted' = IF token \in DOMAIN pending' THEN inserted \cup {token}
                             ELSE inserted
              /\ IF ok
                 THEN /\ nextMsgId' = [nextMsgId EXCEPT ![chat_id] = @ + 1]
                      /\ now' = now + 1
                      /\ Move(h, "await_keyboard", "none", [loc[h] EXCEPT !.token = token])
                 ELSE /\ UNCHANGED <<nextMsgId, now>>
                      /\ Goto(h, "await_err_generic")
    /\ UNCHANGED <<busy, keyboards, ledger, probe>>

\* Telegram shows the rating keyboard in the chat; its buttons can be
\* clicked from now on, whether or not the bot has seen the send return.
TelegramShowsKeyboard(h) ==
    /\ pc[h] = "await_keyboard"
    /\ loc[h].token \notin keyboards
    /\ keyboards' = keyboards \cup {loc[h].token}
    /\ UNCHANGED <<pc, upd, loc, outcome, busy, nextMsgId, probe, Stores>>

\* send_answer_with_rating, second reply_text returns (a lost response is an
\* exception although the keyboard is shown).
KeyboardSendReturns(h) ==
    /\ CanResume(h, "await_keyboard")
    /\ \E ok \in BOOLEAN :
          IF ok THEN loc[h].token \in keyboards /\ Finish(h, "answered")
          ELSE Goto(h, "await_err_generic")
    /\ UNCHANGED <<busy, nextMsgId, keyboards, probe, Stores>>

\* The reply_text of an except block returns; its exception leaves the
\* handler.
ErrorSendReturns(h) ==
    /\ busy = NoHandler
    /\ pc[h] \in {"await_err_backend", "await_err_generic"}
    /\ \E ok \in BOOLEAN :
          IF pc[h] = "await_err_backend"
          THEN IF ok THEN Finish(h, "backend_error")
               ELSE Raise(h, "raised_in_backend_error")
          ELSE IF ok THEN Finish(h, "generic_error")
               ELSE Raise(h, "raised_in_generic_error")
    /\ UNCHANGED <<busy, nextMsgId, keyboards, probe, Stores>>

\* ------------------------------------------------------------ handle_rating
Callback(h, data, origin) ==
    /\ Start(h, [kind |-> "rating", chat |-> 0, user |-> NoUser, text |-> None,
                 data |-> data, origin |-> origin], "await_ack")
    /\ UNCHANGED <<busy, nextMsgId, keyboards, probe, Stores>>

\* The user clicks a button of a keyboard Telegram has shown: handle_rating
\* starts with that button's callback_data and awaits query.answer().
ClickRating(h) ==
    \E token \in keyboards, n \in 1..5 :
        Callback(h, rating_keyboard(token)[n], "keyboard")

\* A callback query with any other payload arrives (a crafted payload, or a
\* click on a keyboard of an earlier run of the bot).
ForgedCallback(h) ==
    \E token \in DOMAIN pending \cup {StaleToken} :
        \E data \in ForgedPayloads(token) \cup {rating_keyboard(StaleToken)[3]} :
            Callback(h, data, "forged")

\* query.answer() returns.  It is awaited before the try block: its
\* exception leaves the handler.  Otherwise lines 293-315 run up to the
\* edit_message_text of the branch taken; an exception of append_csv_row
\* goes to the except block, which awaits its own edit_message_text.
AckReturns(h) ==
    /\ CanResume(h, "await_ack")
    /\ \E ok \in BOOLEAN, io_ok \in BOOLEAN :
          IF ~ok
          THEN Raise(h, "raised_ack") /\ UNCHANGED <<pending, ledger>>
          ELSE LET parsed == ParseRating(upd[h].data)
                   after == IF parsed.verdict = "valid"
                            THEN LookupAndRate(pending, ledger, parsed.token,
                                               parsed.rating_str, io_ok)
                            ELSE [pending |-> pending, ledger |-> ledger,
                                  verdict |-> parsed.verdict]
               IN  /\ pending' = after.pending
                   /\ ledger' = after.ledger
                   /\ Move(h, IF after.verdict = "append_failed"
                              THEN "await_err_edit" ELSE "await_edit",
                           "none",
                           [loc[h] EXCEPT !.token = parsed.token,
                                          !.rating_str = parsed.rating_str,
                                          !.verdict = after.verdict])
    /\ UNCHANGED <<busy, nextMsgId, keyboards, inserted, now, probe>>

\* The edit_message_text of the branch taken returns; its exception goes to
\* the except block.
EditReturns(h) ==
    /\ CanResume(h, "await_edit")
    /\ \E ok \in BOOLEAN :
          IF ok THEN Finish(h, loc[h].verdict) ELSE Goto(h, "await_err_edit")
    /\ UNCHANGED <<busy, nextMsgId, keyboards, probe, Stores>>

\* The edit_message_text of the except block returns; its exception is
\* swallowed (except Exception: pass).
ErrorEditReturns(h) ==
    /\ CanResume(h, "await_err_edit")
    /\ \E ok \in BOOLEAN :
          Finish(h, IF ok THEN "error_reported" ELSE "error_swallowed")
    /\ UNCHANGED <<busy, nextMsgId, keyboards, probe, Stores>>

\* A step of handler invocation h that the event loop runs.
HandlerStep(h) ==
    \/ ReceiveText(h) \/ ReceivePhoto(h) \/ ClickRating(h) \/ ForgedCallback(h)
    \/ TypingReturns(h) \/ GetFileReturns(h) \/ DownloadReturns(h)
    \/ OllamaReturns(h) \/ AnswerSendReturns(h) \/ KeyboardSendReturns(h)
    \/ ErrorSendReturns(h) \/ AckReturns(h) \/ EditReturns(h)
    \/ ErrorEditReturns(h)

Next ==
    \/ \E h \in Handlers : ReceiveText(h)
    \/ \E h \in Handlers : ReceivePhoto(h)
    \/ \E h \in Handlers : ClickRating(h)
    \/ \E h \in Handlers : ForgedCallback(h)
    \/ \E h \in Handlers : TypingReturns(h)
    \/ \E h \in Handlers : GetFileReturns(h)
    \/ \E h \in Handlers : DownloadReturns(h)
    \/ \E h \in Handlers : OllamaReturns(h)
    \/ \E h \in Handlers : AnswerSendReturns(h)
    \/ \E h \in Handlers : TelegramShowsKeyboard(h)
    \/ \E h \in Handlers : KeyboardSendReturns(h)
    \/ \E h \in Handlers : ErrorSendReturns(h)
    \/ \E h \in Handlers : AckReturns(h)
    \/ \E h \in Handlers : EditReturns(h)
    \/ \E h \in Handlers : ErrorEditReturns(h)

Spec == Init /\ [][Next]_vars

\* ------------------------------------------------ make_token on its own
\* Two answers (chat id, message id) of the identifiers below are sent one
\* after the other; each gets its token and its record as in lines 181-192.
TokChats == (-MaxTokId..MaxTokId) \cup {42}
TokMsgs == 1..MaxTokId
TokPairs == TokChats \X TokMsgs

ProbeRecord(pair) ==
    PendingRecord(NoUser, pair[1], pair[2], "text", "", <<"4">>, 0)

InitToken ==
    /\ pending = [t \in {} |-> NoRecord]
    /\ ledger = <<>>
    /\ pc = [h \in Handlers |-> "idle"]
    /\ upd = [h \in Handlers |-> NoUpdate]
    /\ loc = [h \in Handlers |-> NoLocals]
    /\ outcome = [h \in Handlers |-> "none"]
    /\ busy = NoHandler
    /\ nextMsgId = [c \in Chats |-> 1]
    /\ keyboards = {}
    /\ inserted = {}
    /\ now = 0
    /\ \E x \in TokPairs, y \in TokPairs :
          probe = [a |-> x, b |-> y, ta |-> <<>>, tb |-> <<>>, step |-> "none"]

\* The first answer is sent: token made, record stored.
ProbeFirst ==
    /\ probe.step = "none"
    /\ LET token == make_token(probe.a[1], probe.a[2])
       IN  /\ probe' = [probe EXCEPT !.ta = token, !.step = "first"]
           /\ pending' = TrackerInsert(pending, token, ProbeRecord(probe.a))
           /\ inserted' = inserted \cup {token}
    /\ UNCHANGED <<ledger, pc, upd, loc, outcome, busy, nextMsgId, keyboards, now>>

\* The second answer is sent: token made, record stored.
ProbeSecond ==
    /\ probe.step = "first"
    /\ LET token == make_token(probe.b[1], probe.b[2])
       IN  /\ probe' = [probe EXCEPT !.tb = token, !.step = "both"]
           /\ pending' = TrackerInsert(pending, token, ProbeRecord(probe.b))
           /\ inserted' = inserted \cup {token}
    /\ UNCHANGED <<ledger, pc, upd, loc, outcome, busy, nextMsgId, keyboards, now>>

NextToken == ProbeFirst \/ ProbeSecond

TokenSpec == InitToken /\ [][NextToken]_vars

\* ------------------------------------------------- vocabulary of the claims
\* The token a ledger row belongs to.
RowToken(row) == make_token(row.chat_id, row.message_id)

\* The positions of the ledger rows written for token t.
RowsFor(t) == {i \in 1..Len(ledger) : RowToken(ledger[i]) = t}

\* Handler invocations of handle_rating that have done their lookup.
AfterLookup(h) ==
    /\ upd[h].kind = "rating"
    /\ loc[h].verdict \in {"success", "not_found", "append_failed"}

\* The shape of a payload, read off its characters: the positions of "|".
Bars(data) == {i \in 1..Len(data) : data[i] = "|"}
FirstBar(data) == CHOOSE i \in Bars(data) : \A j \in Bars(data) : i <= j
LastBar(data) == CHOOSE i \in Bars(data) : \A j \in Bars(data) : j <= i

\* Three fields when split on "|", the first of them "rate".
WellShaped(data) ==
    /\ Cardinality(Bars(data)) = 2
    /\ SubSeq(data, 1, FirstBar(data) - 1) = <<"r", "a", "t", "e">>

\* Well shaped, and the rating field one of the literal strings "1".."5".
ValidPayload(data) ==
    /\ WellShaped(data)
    /\ \E n \in 1..5 : SubSeq(data, LastBar(data) + 1, Len(data)) = NatToStr(n)

\* The token field of a well-shaped payload.
TokenField(data) == SubSeq(data, FirstBar(data) + 1, LastBar(data) - 1)

\* Handler h takes a step.
Steps(h) == pc'[h] # pc[h]

C2_Rejected ==
    [][\A h \in Handlers :
          /\ (pc[h] = "await_ack" /\ Steps(h) /\ ~ValidPayload(upd[h].data)) =>
                /\ pending' = pending /\ ledger' = ledger
                /\ pc'[h] = "raised" \/
                     loc'[h].verdict = IF WellShaped(upd[h].data) THEN "invalid_rating"
                                       ELSE "malformed"
          /\ (loc[h].verdict \in {"malformed", "invalid_rating"} /\ Steps(h)) =>
                pending' = pending /\ ledger' = ledger]_vars

\* A bad rating value was rejected for a token that is pending, and the
\* token is pending still.
C2_Witness ==
    \E h \in Handlers :
        /\ pc[h] = "await_edit"
        /\ loc[h].verdict = "invalid_rating"
        /\ loc[h].token \in DOMAIN pending

\* -------------------------------------------------------------------- C3
\* C3: every record in the tracker has no rating field, every ledger row
\* has a rating that is an integer in 1..5, and the record a row was built
\* from is never given a rating while it stays in the tracker.
C3_RatingOnlyInLedger ==
    /\ \A t \in DOMAIN pending : "rating" \notin DOMAIN pending[t]
    /\ \A i \in 1..Len(ledger) :
          "rating" \in DOMAIN ledger[i] /\ ledger[i].rating \in 1..5

\* One record has been rated and written while another is in the tracker,
\* unrated.
C3_Witness ==
    /\ Len(ledger) >= 1
    /\ DOMAIN pending # {}

\* -------------------------------------------------------------------- C4
\* The answer of handler h has been sent and its record stored in this step.
Answered(h) == pc[h] = "await_answer" /\ pc'[h] = "await_keyboard"

\* Handler h does its lookup in this step, for a payload a button carries.
Rates(h) ==
    /\ pc[h] = "await_ack" /\ pc'[h] \in {"await_edit", "await_err_edit"}
    /\ ValidPayload(upd[h].data)

\* C4: the successful flow.  When an answer has been sent, the tracker has
\* gained exactly one entry, under make_token(chat id, answer message id),
\* whose fields are the data of that answer, without rating.  When a
\* callback "rate|<token>|<r>" with r in 1..5 finds the token pending and the
\* append does not fail, the token leaves the tracker and the ledger gains
\* exactly one row, the stored record plus rating = r; when it finds the
\* token absent it gets "not found" and changes nothing.
C4_EndToEnd ==
    [][\A h \in Handlers :
          /\ Answered(h) =>
                LET t == make_token(upd[h].chat, nextMsgId[upd[h].chat])
                IN  /\ t \notin DOMAIN pending
                    /\ DOMAIN pending' = DOMAIN pending \cup {t}
                    /\ \A u \in DOMAIN pending : pending'[u] = pending[u]
                    /\ DOMAIN pending'[t] = CSV_HEADERS \ {"rating"}
                    /\ pending'[t].chat_id = upd[h].chat
                    /\ pending'[t].message_id = nextMsgId[upd[h].chat]
                    /\ pending'[t].user_id = upd[h].user
                    /\ pending'[t].input_type = upd[h].kind
                    /\ pending'[t].user_text =
                          (IF upd[h].text = None THEN "" ELSE upd[h].text)
                    /\ pending'[t].ai_answer = loc[h].answer
                    /\ ledger' = ledger
          /\ Rates(h) =>
                LET t == TokenField(upd[h].data)
                    r == CHOOSE n \in 1..5 :
                            SubSeq(upd[h].data, LastBar(upd[h].data) + 1,
                                   Len(upd[h].data)) = NatToStr(n)
                IN  CASE loc'[h].verdict = "success" ->
                           /\ t \in DOMAIN pending
                           /\ DOMAIN pending' = DOMAIN pending \ {t}
                           /\ \A u \in DOMAIN pending' : pending'[u] = pending[u]
                           /\ Len(ledger') = Len(ledger) + 1
                           /\ SubSeq(ledger', 1, Len(ledger)) = ledger
                           /\ LET row == ledger'[Len(ledger')]
                              IN  /\ DOMAIN row = CSV_HEADERS
                                  /\ row.rating = r
                                  /\ \A k \in DOMAIN pending[t] : row[k] = pending[t][k]
                      [] loc'[h].verdict = "not_found" ->
                           /\ t \notin DOMAIN pending
                           /\ pending' = pending /\ ledger' = ledger
                      [] OTHER ->
                           /\ loc'[h].verdict = "append_failed"
                           /\ t \in DOMAIN pending]_vars

\* The answer "4" to "2+2=?" in chat 1 was rated 5: the tracker is empty,
\* the ledger holds that one row, and a further click on the same keyboard
\* got "not found".
C4_Witness ==
    /\ DOMAIN pending = {}
    /\ Len(ledger) = 1
    /\ ledger[1].rating = 5 /\ ledger[1].ai_answer = <<"4">>
    /\ ledger[1].user_text = "2+2=?" /\ ledger[1].chat_id = 1
    /\ \E h \in Handlers :
          /\ loc[h].verdict = "not_found"
          /\ loc[h].token = RowToken(ledger[1])

\* -------------------------------------------------------------------- C5
\* The inference request failed: no connection, or a status other than 200.
InferenceFailed(reply) == reply.transport \/ reply.status # 200

\* C5: when the inference call of handle_text or handle_photo fails, the
\* handler goes on to send the backend-error message and ends there; it has
\* issued one inference request and issues no other, it has made no token,
\* and none of its steps from the failure on changes the tracker or the
\* ledger.
C5_BackendFailure ==
    [][\A h \in Handlers :
          /\ (pc[h] = "in_ollama" /\ Steps(h) /\ InferenceFailed(loc[h].reply)) =>
                /\ pc'[h] = "await_err_backend"
                /\ loc'[h].requests = 1 /\ loc'[h].token = <<>>
                /\ busy' = NoHandler
                /\ pending' = pending /\ ledger' = ledger
          /\ (pc[h] = "await_err_backend" /\ Steps(h)) =>
                /\ pc'[h] \in Ended
                /\ outcome'[h] \in {"backend_error", "raised_in_backend_error"}
                /\ busy' = NoHandler
                /\ pending' = pending /\ ledger' = ledger
          /\ (pc[h] = "in_ollama" /\ Steps(h) /\ ~InferenceFailed(loc[h].reply)) =>
                pc'[h] # "await_err_backend"]_vars

\* handle_photo has ended after sending the backend-error message, and
\* nothing is in the tracker or in the ledger.
C5_Witness ==
    \E h \in Handlers :
        /\ upd[h].kind = "photo"
        /\ pc[h] = "done" /\ outcome[h] = "backend_error"
        /\ DOMAIN pending = {} /\ ledger = <<>>

\* -------------------------------------------------------------------- C6
\* C6: whatever step of handle_text, handle_photo or handle_rating fails,
\* the failure is caught inside the handler: no handler invocation ends by
\* an exception that leaves it.
C6_NothingPropagates == \A h \in Handlers : pc[h] # "raised"

\* -------------------------------------------------------------------- C7
\* Handler g works for another chat than the message handler h: a message
\* of another chat, or a callback whose token is none of h's chat.
OtherChat(h, g) ==
    IF upd[g].kind = "rating"
    THEN \A m \in 1..nextMsgId[upd[h].chat] :
            loc[g].token # make_token(upd[h].chat, m)
    ELSE upd[g].chat # upd[h].chat

\* C7: while one handler invocation is inside its inference call, every
\* invocation for another chat that is suspended at an await can take its
\* next step.
C7_OthersProgress ==
    \A h, g \in Handlers :
        (/\ h # g
         /\ pc[h] = "in_ollama"
         /\ pc[g] \in {"await_typing", "await_get_file", "await_download",
                       "await_edit", "await_err_edit"}
         /\ OtherChat(h, g))
            => ENABLED HandlerStep(g)

\* -------------------------------------------------------------------- C8
\* C8: make_token gives equal tokens for equal (chat id, message id), "42:7"
\* for (42, 7), and different tokens for different pairs, negative chat ids
\* included; so the record stored for one answer is still in the tracker,
\* unchanged, after the record of a different answer has been stored.
C8_TokenInjective ==
    /\ (probe.step # "none" /\ probe.a = <<42, 7>>) =>
          probe.ta = <<"4", "2", ":", "7">>
    /\ probe.step = "both" =>
          /\ (probe.a = probe.b) <=> (probe.ta = probe.tb)
          /\ probe.a # probe.b =>
                /\ pending[probe.ta] = ProbeRecord(probe.a)
                /\ pending[probe.tb] = ProbeRecord(probe.b)

\* Two different answers whose identifiers are made of the same digits, one
\* of them in a chat with a negative id, have both been stored.
C8_Witness ==
    /\ probe.step = "both"
    /\ probe.a = <<-1, 11>> /\ probe.b = <<-11, 1>>
    /\ Cardinality(DOMAIN pending) = 2

\* -------------------------------------------------------------------- C9
\* C9: no record is lost.  Every token that was ever stored is pending or
\* has a ledger row; the step in which a ledger append fails changes neither
\* the tracker nor the ledger and goes on to send the save-error message;
\* the only step that removes a token is the one that has appended its row.
C9_NoRecordLost ==
    /\ [](\A t \in inserted : t \in DOMAIN pending \/ RowsFor(t) # {})
    /\ [][\A h \in Handlers :
             /\ (Steps(h) /\ loc'[h].verdict = "append_failed"
                          /\ loc[h].verdict = "none") =>
                   /\ pending' = pending /\ ledger' = ledger
                   /\ pc'[h] = "await_err_edit"
                   /\ TokenField(upd[h].data) \in DOMAIN pending'
             /\ (Steps(h) /\ DOMAIN pending' # DOMAIN pending
                          /\ ~(DOMAIN pending \subseteq DOMAIN pending')) =>
                   /\ loc'[h].verdict = "success"
                   /\ \A t \in DOMAIN pending \ DOMAIN pending' :
                         /\ \E i \in 1..Len(ledger') : RowToken(ledger'[i]) = t
                         /\ \A i \in 1..Len(ledger) : RowToken(ledger[i]) # t]_vars

\* A ledger append has failed: the handler is sending the save-error message
\* and the record is pending still.
C9_Witness ==
    \E h \in Handlers :
        /\ pc[h] = "await_err_edit"
        /\ loc[h].verdict = "append_failed"
        /\ loc[h].token \in DOMAIN pending

\* ------------------------------------------------------------------- C10
\* The token of the payload the callback handler h carries or has parsed.
CallbackToken(h) ==
    IF pc[h] # "await_ack" THEN loc[h].token
    ELSE IF WellShaped(upd[h].data) THEN TokenField(upd[h].data)
    ELSE <<>>

\* C10: send_answer_with_rating stores the record after the answer has been
\* sent and before the keyboard is sent.  (a) A keyboard is shown only for a
\* token that has been stored, and a callback a keyboard produced finds its
\* token pending unless that token has been rated.  (b) Every tracker entry
\* belongs to an answer Telegram has given a message id, and a handler whose
\* answer is not sent yet has no token.  (c) After the keyboard send failed,
\* the handler is sending the generic error and its entry is in the tracker
\* (or rated since).
C10_StoreBetweenSends ==
    /\ keyboards \subseteq inserted
    /\ \A h \in Handlers :
          /\ (upd[h].kind = "rating" /\ upd[h].origin = "keyboard"
                /\ pc[h] \notin Ended) =>
                /\ CallbackToken(h) \in inserted
                /\ loc[h].verdict = "not_found" => RowsFor(loc[h].token) # {}
          /\ pc[h] \in {"await_typing", "await_get_file", "await_download",
                        "in_ollama", "await_answer"} => loc[h].token = <<>>
          /\ pc[h] = "await_keyboard" => loc[h].token \in inserted
          /\ (pc[h] = "await_err_generic" /\ loc[h].token # <<>>) =>
                loc[h].token \in DOMAIN pending \/ RowsFor(loc[h].token) # {}
    /\ \A t \in DOMAIN pending :
          /\ pending[t].message_id < nextMsgId[pending[t].chat_id]
          /\ t = make_token(pending[t].chat_id, pending[t].message_id)

\* The keyboard was shown but its send failed: the handler is sending the
\* generic error, the entry is in the tracker and its keyboard can be
\* clicked.
C10_Witness ==
    \E h \in Handlers :
        /\ pc[h] = "await_err_generic"
        /\ loc[h].token \in DOMAIN pending
        /\ loc[h].token \in keyboards

====
